---- MODULE Spec2Model ----
(***************************************************************************)
(* ConfigForge-V2Ray, src/source/main.py: the latency-ranking pipeline.    *)
(*                                                                         *)
(* main_async fetches the subscription, keeps the links with a host,       *)
(* probes every unique host through run_ping_once (behind the semaphore    *)
(* _connection_limit), joins the probes with asyncio.gather and then, per  *)
(* country, ranks the links by latency and writes all.txt / light.txt and  *)
(* the per-protocol files.                                                 *)
(*                                                                         *)
(* Representation.                                                         *)
(*  - A link is a record [scheme, user, host, port]: the pieces the        *)
(*    parser reads out of the string.  host "" is a link without a         *)
(*    network location.                                                    *)
(*  - A dict is a sequence of <<key, value>> pairs in insertion order.     *)
(*  - A raw ping result is a dict node -> entries; entries[1] (Python      *)
(*    entries[0]) is the list of <<status, ping>> observations.  The       *)
(*    empty mapping {} is <<>>.                                            *)
(*  - A latency is <<sum, count>>: the mean sum/count, and count 0 is      *)
(*    float("inf").                                                        *)
(*  - The answers of the remote services are the environment: blob,        *)
(*    directory, served and seed are drawn in Init and never change;       *)
(*    budget bounds the number of failing answers of check-host.net.       *)
(***************************************************************************)
EXTENDS Naturals, Integers, Sequences, FiniteSets, TLC

VARIABLES
    blob,           \* configs found in the fetched subscription (line 303)
    directory,      \* answer of /nodes/hosts as a dict country -> nodes
    served,         \* host -> the poll body check-host.net has for it
    seed,           \* iteration order of the set of hosts (line 316)
    budget,         \* failing answers check-host.net may still give
    pc,             \* position of main_async
    country_nodes,  \* line 295
    all_pairs,      \* line 298
    categorized,    \* line 297
    hosts,          \* line 316
    results,        \* line 319
    sem,            \* _connection_limit._value
    tpc,            \* host -> position of its run_ping_once task
    attempt,        \* host -> loop variable of line 134
    polls,          \* host -> iterations done of the loop of line 153
    ret,            \* host -> value returned by run_ping_once
    log,            \* host -> answers to its submissions, in order
    plog,           \* host -> answers to its poll requests, in order
    ci,             \* countries of categorized processed so far
    ranked,         \* country -> sorted_links (line 334)
    files,          \* path -> lines written by save_to_file
    lat_results,    \* argument results of extract_latency_by_country
    lat_nodes,      \* argument country_nodes of extract_latency_by_country
    lat_out,        \* its return value
    lat_pc          \* position of the caller of extract_latency_by_country

vars == <<blob, directory, served, seed, budget, pc, country_nodes, all_pairs,
          categorized, hosts, results, sem, tpc, attempt, polls, ret, log,
          plog, ci, ranked, files, lat_results, lat_nodes, lat_out, lat_pc>>

envVars == <<blob, directory, served, seed>>
mainVars == <<pc, country_nodes, all_pairs, categorized, hosts, results, ci,
              ranked, files>>
taskVars == <<sem, tpc, attempt, polls, ret, log, plog>>
latVars == <<lat_results, lat_nodes, lat_out, lat_pc>>

(***************************************************************************)
(* Program constants                                                       *)
(***************************************************************************)
ConnectionLimit == 5
Retries == 3
PollAttempts == 10
LightSize == 30

(***************************************************************************)
(* Bounds of the model                                                     *)
(***************************************************************************)
GateHosts == 6
GateBudget == 1
ProbeBudget == 30
RankBudget == 1
MaxLen == 3
MaxBig == 32
MaxObs == 2

(***************************************************************************)
(* Dicts and lists                                                         *)
(***************************************************************************)
Range(s) == {s[i] : i \in 1..Len(s)}

Keys(d) == [i \in 1..Len(d) |-> d[i][1]]

HasKey(d, k) == \E i \in 1..Len(d) : d[i][1] = k

\* d.get(k, default)
Get(d, k, default) ==
    IF HasKey(d, k)
    THEN d[CHOOSE i \in 1..Len(d) : d[i][1] = k][2]
    ELSE default

\* d[k] = v: an existing key keeps its place, a new key goes last
Put(d, k, v) ==
    IF HasKey(d, k)
    THEN [i \in 1..Len(d) |-> IF d[i][1] = k THEN <<k, v>> ELSE d[i]]
    ELSE Append(d, <<k, v>>)

\* Take with an end one too far
TakeOneMore(s, n) == SubSeq(s, 1, IF Len(s) < n + 1 THEN Len(s) ELSE n + 1)


Take(s, n) == SubSeq(s, 1, IF Len(s) < n THEN Len(s) ELSE n)

\* the sequences over S of length at most n
SeqsUpTo(S, n) == UNION {[1..k -> S] : k \in 0..n}

(***************************************************************************)
(* Parser                                                                  *)
(***************************************************************************)
EmptyHost == ""

\* detect_protocol: the scheme, with ss renamed
detect_protocol(link) ==
    IF link.scheme = "ss" THEN "shadowsocks" ELSE link.scheme

\* extract_host: the network location host:port (user info dropped)
extract_host(link, proto) == <<link.host, link.port>>

\* strip_port: what precedes the first ":"
strip_port(hostport) == hostport[1]

(***************************************************************************)
(* run_ping_once                                                           *)
(***************************************************************************)
HostNames == <<"h1", "h2", "h3", "h4", "h5", "h6", "h7", "h8">>

AllHosts == Range(HostNames)

EmptyResult == <<>>

\* the truth value Python gives a mapping
Truthy(body) == body # EmptyResult

\* Return that keeps the permit
ReturnKeepingPermit(h, value) ==
    /\ tpc' = [tpc EXCEPT ![h] = "done"]
    /\ ret' = [ret EXCEPT ![h] = value]
    /\ UNCHANGED <<sem, attempt, polls>>

\* leaving the "async with" block with a value: the permit goes back
Return(h, value) ==
    /\ tpc' = [tpc EXCEPT ![h] = "done"]
    /\ ret' = [ret EXCEPT ![h] = value]
    /\ sem' = sem + 1
    /\ UNCHANGED <<attempt, polls>>

\* NextAttempt with one attempt less
NextAttemptShort(h) ==
    IF attempt[h] < Retries - 1
    THEN /\ attempt' = [attempt EXCEPT ![h] = attempt[h] + 1]
         /\ tpc' = [tpc EXCEPT ![h] = "submit"]
         /\ UNCHANGED <<sem, polls, ret>>
    ELSE /\ tpc' = [tpc EXCEPT ![h] = "done"]
         /\ ret' = [ret EXCEPT ![h] = EmptyResult]
         /\ sem' = sem + 1
         /\ UNCHANGED <<attempt, polls>>

\* the next iteration of "for attempt in range(1, retries + 1)", or the
\* "return {}" after the loop
NextAttempt(h) ==
    IF attempt[h] < Retries
    THEN /\ attempt' = [attempt EXCEPT ![h] = attempt[h] + 1]
         /\ tpc' = [tpc EXCEPT ![h] = "submit"]
         /\ UNCHANGED <<sem, polls, ret>>
    ELSE Return(h, EmptyResult)

Answered(h, answer) ==
    /\ log' = [log EXCEPT ![h] = Append(log[h], answer)]
    /\ UNCHANGED plog

Fails ==
    /\ budget > 0
    /\ budget' = budget - 1

\* the waiters of the semaphore are served in the order they arrived, the
\* order in which gather started the tasks
FirstWaiter(h) ==
    \A i \in 1..Len(hosts) :
        tpc[hosts[i]] = "wait" => \E j \in 1..i : hosts[j] = h

\* Acquire without the test of the permit count
AcquireUngated(h) ==
    /\ pc = "gather"
    /\ tpc[h] = "wait"
    /\ sem' = sem - 1
    /\ tpc' = [tpc EXCEPT ![h] = "submit"]
    /\ UNCHANGED <<attempt, polls, ret, log, plog, budget>>
    /\ UNCHANGED <<envVars, mainVars, latVars>>

\* "async with _connection_limit": the task takes a permit
Acquire(h) ==
    /\ pc = "gather"
    /\ tpc[h] = "wait"
    /\ sem > 0
    /\ FirstWaiter(h)
    /\ sem' = sem - 1
    /\ tpc' = [tpc EXCEPT ![h] = "submit"]
    /\ UNCHANGED <<attempt, polls, ret, log, plog, budget>>
    /\ UNCHANGED <<envVars, mainVars, latVars>>

\* the submission is answered 503: sleep, continue
Submit503(h) ==
    /\ pc = "gather"
    /\ tpc[h] = "submit"
    /\ Fails
    /\ Answered(h, "503")
    /\ NextAttempt(h)
    /\ UNCHANGED <<envVars, mainVars, latVars>>

\* client.get, raise_for_status or json() raises: except, sleep 2
SubmitError(h) ==
    /\ pc = "gather"
    /\ tpc[h] = "submit"
    /\ Fails
    /\ Answered(h, "error")
    /\ NextAttempt(h)
    /\ UNCHANGED <<envVars, mainVars, latVars>>

\* a 2xx answer without request_id: return {}
SubmitNoId(h) ==
    /\ pc = "gather"
    /\ tpc[h] = "submit"
    /\ Fails
    /\ Answered(h, "noid")
    /\ Return(h, EmptyResult)
    /\ UNCHANGED <<envVars, mainVars, latVars>>

\* a 2xx answer with a request_id: enter the poll loop
SubmitOk(h) ==
    /\ pc = "gather"
    /\ tpc[h] = "submit"
    /\ Answered(h, "ok")
    /\ tpc' = [tpc EXCEPT ![h] = "poll"]
    /\ polls' = [polls EXCEPT ![h] = 0]
    /\ UNCHANGED <<sem, attempt, ret, budget>>
    /\ UNCHANGED <<envVars, mainVars, latVars>>

Polled(h, answer) ==
    /\ plog' = [plog EXCEPT ![h] = Append(plog[h], answer)]
    /\ UNCHANGED log

\* the poll is answered 200 with a non-empty body: return r2.json()
PollUsable(h) ==
    /\ pc = "gather"
    /\ tpc[h] = "poll"
    /\ Truthy(served[h])
    /\ Polled(h, "usable")
    /\ Return(h, served[h])
    /\ UNCHANGED budget
    /\ UNCHANGED <<envVars, mainVars, latVars>>

\* PollUnusable with one poll more
PollUnusableLong(h) ==
    /\ pc = "gather"
    /\ tpc[h] = "poll"
    /\ Fails
    /\ Polled(h, "unusable")
    /\ IF polls[h] < PollAttempts
       THEN /\ polls' = [polls EXCEPT ![h] = polls[h] + 1]
            /\ UNCHANGED <<sem, tpc, attempt, ret>>
       ELSE Return(h, EmptyResult)
    /\ UNCHANGED <<envVars, mainVars, latVars>>

\* the poll is answered non-200 or with an empty body: next poll, or
\* after the last one the break and the "return {}"
PollUnusable(h) ==
    /\ pc = "gather"
    /\ tpc[h] = "poll"
    /\ Fails
    /\ Polled(h, "unusable")
    /\ IF polls[h] + 1 < PollAttempts
       THEN /\ polls' = [polls EXCEPT ![h] = polls[h] + 1]
            /\ UNCHANGED <<sem, tpc, attempt, ret>>
       ELSE Return(h, EmptyResult)
    /\ UNCHANGED <<envVars, mainVars, latVars>>

\* the poll request or r2.json() raises: the except of line 164
PollError(h) ==
    /\ pc = "gather"
    /\ tpc[h] = "poll"
    /\ Fails
    /\ Polled(h, "error")
    /\ NextAttempt(h)
    /\ UNCHANGED <<envVars, mainVars, latVars>>

(***************************************************************************)
(* extract_latency_by_country                                              *)
(***************************************************************************)
Inf == <<0, 0>>

IsInf(lat) == lat[2] = 0

\* a < b on floats: cross-multiplied means, inf above every mean
LatLess(a, b) ==
    IF IsInf(a) THEN FALSE
    ELSE IF IsInf(b) THEN TRUE
    ELSE a[1] * b[2] < b[1] * a[2]

LatEqual(a, b) == ~LatLess(a, b) /\ ~LatLess(b, a)

RECURSIVE SumSeq(_)
SumSeq(s) == IF s = <<>> THEN 0 ELSE s[1] + SumSeq(Tail(s))

\* OkPings without the test of the status
RECURSIVE AnyPings(_)
AnyPings(obs) ==
    IF obs = <<>> THEN <<>> ELSE <<obs[1][2]>> \o AnyPings(Tail(obs))

\* "for status, ping in entries[0]: if status == "OK": pings.append(ping)"
RECURSIVE OkPings(_)
OkPings(obs) ==
    IF obs = <<>> THEN <<>>
    ELSE (IF obs[1][1] = "OK" THEN <<obs[1][2]>> ELSE <<>>)
         \o OkPings(Tail(obs))

\* one node: entries[0] of an absent node ([]) raises, and the node is skipped
NodePings(result, node) ==
    LET entries == Get(result, node, <<>>)
    IN  IF entries = <<>> THEN <<>> ELSE OkPings(entries[1])

RECURSIVE CountryPings(_, _)
CountryPings(result, nodes) ==
    IF nodes = <<>> THEN <<>>
    ELSE NodePings(result, nodes[1]) \o CountryPings(result, Tail(nodes))

\* "sum(pings) / len(pings) if pings else float("inf")"
Mean(pings) == IF pings = <<>> THEN Inf ELSE <<SumSeq(pings), Len(pings)>>

extract_latency_by_country(result, nodes_by_country) ==
    [i \in 1..Len(nodes_by_country) |->
        <<nodes_by_country[i][1],
          Mean(CountryPings(result, nodes_by_country[i][2]))>>]

(***************************************************************************)
(* get_nodes_by_country                                                    *)
(***************************************************************************)
\* "mapping.setdefault(str(loc[0]).lower(), []).append(node)" for the nodes
\* with a non-empty location
RECURSIVE GroupNodes(_, _)
GroupNodes(mapping, nodes) ==
    IF nodes = <<>> THEN mapping
    ELSE LET node == nodes[1][1]
             loc == nodes[1][2]
         IN  GroupNodes(
                 IF loc = <<>> THEN mapping
                 ELSE Put(mapping, loc[1],
                          Append(Get(mapping, loc[1], <<>>), node)),
                 Tail(nodes))

get_nodes_by_country(answer) ==
    IF answer.ok THEN GroupNodes(<<>>, answer.nodes) ELSE <<>>

(***************************************************************************)
(* save_to_file, rename_line                                               *)
(***************************************************************************)
\* nothing is written for an empty list
save_to_file(fs, path, lines) ==
    IF lines = <<>> THEN fs ELSE Put(fs, path, lines)

\* the link with its address resolved and its tag replaced; the random
\* six digits of the tag are left out
rename_line(link) == [link |-> link, tag |-> "ShatalVPN"]

RenameAll(links) == [i \in 1..Len(links) |-> rename_line(links[i])]

(***************************************************************************)
(* main_async                                                              *)
(***************************************************************************)
\* the items of s without the repeats, in the order they first appear: the
\* order in which a dict receives them as keys
Distinct(s) ==
    LET first == SelectSeq([i \in 1..Len(s) |-> i],
                           LAMBDA i : \A j \in 1..(i - 1) : s[j] # s[i])
    IN  [k \in 1..Len(first) |-> s[first[k]]]

HostOf(link) == strip_port(extract_host(link, detect_protocol(link)))

\* lines 306-311: a pair for each link with a host, in the order fetched
Pairs(configs) ==
    LET kept == SelectSeq(configs, LAMBDA link : HostOf(link) # EmptyHost)
    IN  [i \in 1..Len(kept) |-> <<kept[i], HostOf(kept[i])>>]

\* lines 312-313 seen from one country: setdefault(proto, []).append(pair)
\* for every pair, so a protocol enters at its first link and gets every
\* pair of its links
Groups(pairs) ==
    LET protos == Distinct([i \in 1..Len(pairs) |->
                               detect_protocol(pairs[i][1])])
    IN  [k \in 1..Len(protos) |->
            <<protos[k],
              SelectSeq(pairs, LAMBDA p : detect_protocol(p[1]) = protos[k])>>]

\* lines 312-313: every pair goes under every country of country_nodes, so
\* without pairs no country is entered
CategorizeAll(countries, pairs) ==
    IF pairs = <<>> THEN <<>>
    ELSE [c \in 1..Len(countries) |-> <<countries[c], Groups(pairs)>>]

\* line 316: the set of hosts as a list, in the order the set iterates
HostSet(pairs) == {pairs[i][2] : i \in 1..Len(pairs)}

HostList(pairs, order) == SelectSeq(order, LAMBDA h : h \in HostSet(pairs))

\* SetLatency on a list instead of a dict: every occurrence is appended
SetLatencyList(latencies, pairs, host, lat) ==
    LET mine == SelectSeq(pairs, LAMBDA p : p[2] = host)
    IN  latencies \o [i \in 1..Len(mine) |-> <<mine[i][1], lat>>]

\* lines 329-331 for one host: "latencies[link] = lat" for each of its
\* links in the order of all_pairs; a key already there keeps its place,
\* a new key goes last
SetLatency(latencies, pairs, host, lat) ==
    LET mine == SelectSeq(pairs, LAMBDA p : p[2] = host)
        links == Distinct([i \in 1..Len(mine) |-> mine[i][1]])
        fresh == SelectSeq(links, LAMBDA l : ~HasKey(latencies, l))
    IN  [i \in 1..Len(latencies) |->
            IF latencies[i][1] \in Range(links)
            THEN <<latencies[i][1], lat>>
            ELSE latencies[i]]
        \o [i \in 1..Len(fresh) |-> <<fresh[i], lat>>]

\* line 328
HostLatency(result, country, nodes) ==
    Get(extract_latency_by_country(result, <<<<country, nodes>>>>),
        country, Inf)

\* lines 327-331, over the first n items of results
RECURSIVE Latencies(_, _, _, _, _)
Latencies(res, n, pairs, country, nodes) ==
    IF n = 0 THEN <<>>
    ELSE CHOOSE latencies \in
             {SetLatency(before, pairs, res[n][1], lat) :
                 before \in {Latencies(res, n - 1, pairs, country, nodes)},
                 lat \in {HostLatency(res[n][2], country, nodes)}} : TRUE

\* SortByKey that leaves the items as they are
SortByKeyUnsorted(items) == items

\* sorted(..., key=lambda x: x[1]): ascending by key and stable, so item i
\* comes behind the items with a smaller key and the earlier items with an
\* equal key
SortByKey(items) ==
    LET before(i) ==
            {j \in 1..Len(items) :
                \/ LatLess(items[j][2], items[i][2])
                \/ j < i /\ ~LatLess(items[i][2], items[j][2])}
    IN  [p \in 1..Len(items) |->
            items[CHOOSE i \in 1..Len(items) : Cardinality(before(i)) = p - 1]]

\* line 334
SortedLinks(latencies) == Keys(SortByKey(latencies))

\* line 341
OfProto(links, proto) ==
    SelectSeq(links, LAMBDA l : detect_protocol(l) = proto)

\* lines 340-345
RECURSIVE SaveProtos(_, _, _, _)
SaveProtos(fs, country, protos, links) ==
    IF protos = <<>> THEN fs
    ELSE SaveProtos(
             save_to_file(fs, <<country, protos[1]>>,
                          RenameAll(OfProto(links, protos[1]))),
             country, Tail(protos), links)

\* lines 295-313
Fetch ==
    /\ pc = "start"
    /\ country_nodes' = get_nodes_by_country(directory)
    /\ all_pairs' = Pairs(blob)
    /\ categorized' = CategorizeAll(Keys(country_nodes'), all_pairs')
    /\ pc' = "fetched"
    /\ UNCHANGED <<envVars, budget, hosts, results, ci, ranked, files,
                   taskVars, latVars>>

\* lines 316-318: a task per unique host, all started by gather
Launch ==
    /\ pc = "fetched"
    /\ hosts' = HostList(all_pairs, seed)
    /\ tpc' = [h \in AllHosts |->
                  IF h \in HostSet(all_pairs) THEN "wait" ELSE tpc[h]]
    /\ pc' = "gather"
    /\ UNCHANGED <<envVars, budget, country_nodes, all_pairs, categorized,
                   results, ci, ranked, files, sem, attempt, polls, ret, log,
                   plog, latVars>>

\* AllReturned satisfied by the first task that returns
SomeReturned == \E i \in 1..Len(hosts) : tpc[hosts[i]] = "done"


AllReturned == \A i \in 1..Len(hosts) : tpc[hosts[i]] = "done"

\* lines 318-319: gather returns when every task has returned
Join ==
    /\ pc = "gather"
    /\ AllReturned
    /\ results' = [i \in 1..Len(hosts) |-> <<hosts[i], ret[hosts[i]]>>]
    /\ pc' = "process"
    /\ UNCHANGED <<envVars, budget, country_nodes, all_pairs, categorized,
                   hosts, ci, ranked, files, taskVars, latVars>>

\* lines 322-348 for the next country of categorized
ProcessCountry ==
    /\ pc = "process"
    /\ ci < Len(categorized)
    /\ LET country == categorized[ci + 1][1]
           groups == categorized[ci + 1][2]
           nodes == Get(country_nodes, country, <<>>)
       IN  \E latencies \in {Latencies(results, Len(results), all_pairs,
                                       country, nodes)} :
           \E sorted_links \in {SortedLinks(latencies)} :
           \E renamed_all \in {RenameAll(sorted_links)} :
               /\ ranked' = Put(ranked, country, sorted_links)
               /\ files' = save_to_file(
                               save_to_file(
                                   SaveProtos(files, country, Keys(groups),
                                              sorted_links),
                                   <<country, "all">>, renamed_all),
                               <<country, "light">>,
                               Take(renamed_all, LightSize))
    /\ ci' = ci + 1
    /\ UNCHANGED <<envVars, budget, pc, country_nodes, all_pairs, categorized,
                   hosts, results, taskVars, latVars>>

\* the loop of line 322 is over
Finish ==
    /\ pc = "process"
    /\ ci = Len(categorized)
    /\ pc' = "done"
    /\ UNCHANGED <<envVars, budget, country_nodes, all_pairs, categorized,
                   hosts, results, ci, ranked, files, taskVars, latVars>>

Next ==
    \/ Fetch
    \/ Launch
    \/ \E h \in AllHosts : Acquire(h)
    \/ \E h \in AllHosts : Submit503(h)
    \/ \E h \in AllHosts : SubmitError(h)
    \/ \E h \in AllHosts : SubmitNoId(h)
    \/ \E h \in AllHosts : SubmitOk(h)
    \/ \E h \in AllHosts : PollUsable(h)
    \/ \E h \in AllHosts : PollUnusable(h)
    \/ \E h \in AllHosts : PollError(h)
    \/ Join
    \/ ProcessCountry
    \/ Finish

(***************************************************************************)
(* The state main_async starts in                                          *)
(***************************************************************************)
ProgInit ==
    /\ pc = "start"
    /\ country_nodes = <<>>
    /\ all_pairs = <<>>
    /\ categorized = <<>>
    /\ hosts = <<>>
    /\ results = <<>>
    /\ sem = ConnectionLimit
    /\ tpc = [h \in AllHosts |-> "none"]
    /\ attempt = [h \in AllHosts |-> 1]
    /\ polls = [h \in AllHosts |-> 0]
    /\ ret = [h \in AllHosts |-> EmptyResult]
    /\ log = [h \in AllHosts |-> <<>>]
    /\ plog = [h \in AllHosts |-> <<>>]
    /\ ci = 0
    /\ ranked = <<>>
    /\ files = <<>>

LatIdle ==
    /\ lat_results = <<>>
    /\ lat_nodes = <<>>
    /\ lat_out = <<>>
    /\ lat_pc = "idle"

(***************************************************************************)
(* The answers of the services                                             *)
(***************************************************************************)
Schemes == <<"vless", "ss", "vmess">>

\* the i-th link of a subscription whose links share nh hosts
LinkOf(i, nh) ==
    [scheme |-> Schemes[(i % 3) + 1], user |-> i,
     host |-> HostNames[(i % nh) + 1], port |-> 443]

\* a link without a network location
Hostless == [scheme |-> "vless", user |-> 0, host |-> EmptyHost, port |-> 443]

\* /nodes/hosts: n1 and n2 in de, n3 in us, n4 without a location
DirNodes ==
    [ok |-> TRUE,
     nodes |-> << <<"n1", <<"de">>>>, <<"n2", <<"de">>>>,
                  <<"n3", <<"us">>>>, <<"n4", <<>>>> >>]

DirFail == [ok |-> FALSE, nodes |-> <<>>]

\* poll bodies: de 20 and us inf; de 20 and us 5; de 40 and us inf
Body1 == << <<"n1", << << <<"OK", 10>>, <<"OK", 30>> >> >> >>,
            <<"n2", << << <<"TIMEOUT", 9>>, <<"OK", 20>> >> >> >> >>

Body2 == << <<"n1", << << <<"OK", 20>> >> >> >>,
            <<"n3", << << <<"OK", 5>> >> >> >> >>

Body3 == << <<"n2", << << <<"OK", 40>> >> >> >>,
            <<"n3", <<>>>> >>

Bodies == {Body1, Body2, Body3}

ServedTo(H, B) ==
    {[h \in AllHosts |-> IF h \in H THEN f[h] ELSE EmptyResult] :
        f \in [H -> B]}

\* more hosts than permits, one link each
InitGate ==
    /\ blob = [i \in 1..GateHosts |-> LinkOf(i, GateHosts)]
    /\ directory = DirNodes
    /\ served = [h \in AllHosts |-> Body1]
    /\ seed = HostNames
    /\ budget = GateBudget
    /\ ProgInit
    /\ LatIdle

\* one host, any run of answers
InitProbe ==
    /\ blob = <<LinkOf(1, 1)>>
    /\ directory \in {DirNodes, DirFail}
    /\ served \in ServedTo({HostNames[1]}, Bodies)
    /\ seed = HostNames
    /\ budget = ProbeBudget
    /\ ProgInit
    /\ LatIdle

RankLinks == {LinkOf(1, 2), LinkOf(2, 2), Hostless}

\* the bodies the two hosts may be served: de 20 or 40, us 5 or inf
RankBodies == {Body2, Body3}

RankHosts == {HostNames[1], HostNames[2]}

\* short subscriptions with repeated and hostless links, and long ones
InitRank ==
    /\ \/ blob \in SeqsUpTo(RankLinks, MaxLen)
       \/ \E n \in LightSize - 1..MaxBig : blob = [i \in 1..n |-> LinkOf(i, 2)]
    /\ directory = DirNodes
    /\ served \in ServedTo(RankHosts, RankBodies)
    /\ seed \in {HostNames, <<HostNames[2], HostNames[1]>>}
    /\ budget = RankBudget
    /\ ProgInit
    /\ LatIdle

(***************************************************************************)
(* extract_latency_by_country on its own                                   *)
(***************************************************************************)
Observations == {<<"OK", 1>>, <<"OK", 2>>, <<"TIMEOUT", 3>>}

\* what a raw result holds for a node: nothing, an empty list, or a list
\* whose first item is the list of observations
NodeEntries ==
    {[present |-> FALSE, entries |-> <<>>], [present |-> TRUE, entries |-> <<>>]}
    \cup {[present |-> TRUE, entries |-> <<obs>>] :
             obs \in SeqsUpTo(Observations, MaxObs)}

RawItem(node, e) == IF e.present THEN <<<<node, e.entries>>>> ELSE <<>>

RawResults ==
    {RawItem("n1", e1) \o RawItem("n2", e2) : e1 \in NodeEntries, e2 \in NodeEntries}

NodeLists == {<<>>, <<"n1">>, <<"n2">>, <<"n1", "n2">>, <<"n2", "n1">>, <<"n3">>}

NodeMappings ==
    {<<>>}
    \cup {<<<<"de", a>>>> : a \in NodeLists}
    \cup {<<<<"de", a>>, <<"us", b>>>> : a \in NodeLists, b \in NodeLists}

InitLatency ==
    /\ blob = <<>>
    /\ directory = DirFail
    /\ served = [h \in AllHosts |-> EmptyResult]
    /\ seed = HostNames
    /\ budget = 0
    /\ ProgInit
    /\ lat_results \in RawResults
    /\ lat_nodes \in NodeMappings
    /\ lat_out = <<>>
    /\ lat_pc = "call"

CallLatency ==
    /\ lat_pc = "call"
    /\ lat_out' = extract_latency_by_country(lat_results, lat_nodes)
    /\ lat_pc' = "returned"
    /\ UNCHANGED <<envVars, budget, mainVars, taskVars, lat_results, lat_nodes>>

NextLatency == CallLatency

Spec == InitGate /\ [][Next]_vars

SpecProbe == InitProbe /\ [][Next]_vars

SpecRank == InitRank /\ [][Next]_vars

\* the event loop runs a step whenever one can run
FairSpec == InitGate /\ [][Next]_vars /\ WF_vars(Next)

SpecLatency == InitLatency /\ [][NextLatency]_vars

(***************************************************************************)
(* Properties                                                              *)
(***************************************************************************)
Launched == HostSet(all_pairs)

\* the probes past the gate that have not returned
InFlight == {h \in AllHosts : tpc[h] \in {"submit", "poll"}}

Count(s, x) == Cardinality({i \in 1..Len(s) : s[i] = x})

Last(s) == s[Len(s)]

\* the place where x is first found in s
FirstIndex(s, x) == CHOOSE i \in 1..Len(s) : s[i] = x /\ \A j \in 1..(i - 1) : s[j] # x

\* the links under the lines of a written file
Unrenamed(lines) == [i \in 1..Len(lines) |-> lines[i].link]

\* the countries the loop of line 322 has processed
Processed == Range(Keys(ranked))

\* the latency of a link for a country, from the result of its host
LinkLatency(link, country) ==
    HostLatency(Get(results, HostOf(link), EmptyResult), country,
                Get(country_nodes, country, <<>>))

Abandoned(link) == Get(results, HostOf(link), EmptyResult) = EmptyResult

\* C1: at most 5 probes are past the gate and not yet returned, at any time
\* and for any number of hosts, and the permits left are those not held.
C1_AtMostFiveInFlight ==
    /\ Cardinality(InFlight) <= ConnectionLimit
    /\ sem = ConnectionLimit - Cardinality(InFlight)

\* more hosts than permits: one probe has returned and five are in flight,
\* so a sixth got past the gate after the return
C1_Witness ==
    /\ Cardinality(Launched) > ConnectionLimit
    /\ Cardinality(InFlight) = ConnectionLimit
    /\ \E h \in Launched : tpc[h] = "done"

\* C2: a probe submits at most 3 times; 503, 503, then a request_id and a
\* usable poll body make it return that body; 503 three times make it
\* return the empty mapping after the third, without a poll.
C2_RetryOn503 ==
    \A h \in AllHosts :
        /\ Len(log[h]) <= Retries
        /\ ( /\ tpc[h] = "done"
             /\ log[h] = <<"503", "503", "ok">>
             /\ plog[h] # <<>>
             /\ Last(plog[h]) = "usable" )
           => Truthy(ret[h]) /\ ret[h] = served[h]
        /\ ( /\ log[h] # <<>>
             /\ \A i \in 1..Len(log[h]) : log[h][i] = "503" )
           => /\ plog[h] = <<>>
              /\ tpc[h] = "done" <=> Len(log[h]) = Retries
              /\ tpc[h] = "done" => ret[h] = EmptyResult

\* 503 twice, a request_id, an unusable poll and then a usable one
C2_Witness ==
    \E h \in AllHosts :
        /\ tpc[h] = "done"
        /\ log[h] = <<"503", "503", "ok">>
        /\ plog[h] = <<"unusable", "usable">>
        /\ Truthy(ret[h])

\* C3 as stated: after a request_id no further submission, at most 10 polls
\* in all, the first usable body returned, the empty mapping otherwise.
C3_NeverSubmitsAgain ==
    \A h \in AllHosts :
        /\ \A i \in 1..(Len(log[h]) - 1) : log[h][i] # "ok"
        /\ Len(plog[h]) <= PollAttempts
        /\ \A i \in 1..(Len(plog[h]) - 1) : plog[h][i] # "usable"
        /\ Count(plog[h], "usable") = 1 => tpc[h] = "done" /\ ret[h] = served[h]
        /\ tpc[h] = "done" /\ Count(plog[h], "usable") = 0
           => ret[h] = EmptyResult

\* C3, amended: after a request_id the probe submits again only when a poll
\* request has failed, once per failed poll and at most 3 times in all; it
\* polls at most 10 times per request_id; the first usable body is returned
\* without a further request; without a usable body the result is empty.
C3_ResubmitsOnlyAfterPollError ==
    \A h \in AllHosts :
        /\ Len(log[h]) <= Retries
        /\ Cardinality({i \in 1..(Len(log[h]) - 1) : log[h][i] = "ok"})
             <= Count(plog[h], "error")
        /\ tpc[h] = "poll" => polls[h] < PollAttempts
        /\ Len(plog[h]) <= PollAttempts * Count(log[h], "ok")
        /\ \A i \in 1..(Len(plog[h]) - 1) : plog[h][i] # "usable"
        /\ Count(plog[h], "usable") = 1 => tpc[h] = "done" /\ ret[h] = served[h]
        /\ tpc[h] = "done" /\ Count(plog[h], "usable") = 0
           => ret[h] = EmptyResult

\* a failed poll, a second request_id, more than 10 polls, a body returned
C3_Witness ==
    \E h \in AllHosts :
        /\ tpc[h] = "done"
        /\ Count(log[h], "ok") = 2
        /\ Len(plog[h]) > PollAttempts
        /\ Last(plog[h]) = "usable"
        /\ ret[h] = served[h]

\* C4: no country is processed, and nothing is written, while a probe is
\* still at the gate, submitting or polling; the results are what the
\* probes returned.
C4_JoinBeforeAggregation ==
    (pc \in {"process", "done"} \/ ci > 0 \/ ranked # <<>> \/ files # <<>>)
    => /\ \A h \in Launched : tpc[h] = "done"
       /\ Len(results) = Cardinality(Launched)
       /\ \A i \in 1..Len(results) : results[i][2] = ret[results[i][1]]

\* a country processed after a run with a probe abandoned and one answered
C4_Witness ==
    /\ ci > 0
    /\ \E h \in Launched : ret[h] = EmptyResult
    /\ \E h \in Launched : Truthy(ret[h])
    /\ Cardinality(Launched) > ConnectionLimit

\* C5 as stated: links of equal latency are ranked in the order in which
\* the collector found them.
C5_TiesInDiscoveryOrder ==
    \A c \in Processed :
        LET list == Get(ranked, c, <<>>)
        IN  \A i \in 1..Len(list) : \A j \in (i + 1)..Len(list) :
                LatEqual(LinkLatency(list[i], c), LinkLatency(list[j], c))
                => FirstIndex(blob, list[i]) < FirstIndex(blob, list[j])

\* C6: a ranked list is in ascending order of latency, and the links of
\* abandoned hosts come behind every link with a finite latency.
C6_AscendingLatency ==
    \A c \in Processed :
        LET list == Get(ranked, c, <<>>)
        IN  \E lat \in {[i \in 1..Len(list) |-> LinkLatency(list[i], c)]} :
            \A i \in 1..Len(list) : \A j \in (i + 1)..Len(list) :
                /\ ~LatLess(lat[j], lat[i])
                /\ Abandoned(list[i]) => IsInf(lat[j])

\* a link of an abandoned host, found first, ranked behind a link with a
\* finite latency
C6_Witness ==
    \E c \in Processed :
        LET list == Get(ranked, c, <<>>)
        IN  /\ Len(list) = 2
            /\ Abandoned(list[2])
            /\ ~IsInf(LinkLatency(list[1], c))
            /\ LatLess(LinkLatency(list[1], c), LinkLatency(list[2], c))
            /\ FirstIndex(blob, list[2]) = 1

\* the links the collector found that have a host
WithHost == {blob[i] : i \in {k \in 1..Len(blob) : HostOf(blob[k]) # EmptyHost}}

\* C7 as stated: all.txt has one line per occurrence of a link with a host.
C7_OneLinePerOccurrence ==
    \A c \in Processed :
        Len(Get(files, <<c, "all">>, <<>>)) = Len(all_pairs)

\* C7, amended: for every country of the directory all.txt has one line per
\* distinct link with a host, however often the link was fetched, and a
\* host is probed once.
C7_OneLinePerDistinctLink ==
    /\ pc \in {"gather", "process", "done"}
       => /\ Len(hosts) = Cardinality(Launched)
          /\ Range(hosts) = Launched
    /\ \A h \in AllHosts : tpc[h] # "none" <=> h \in Range(hosts)
    /\ pc = "done" /\ all_pairs # <<>> => Processed = Range(Keys(country_nodes))
    /\ \A c \in Processed :
          LET all == Unrenamed(Get(files, <<c, "all">>, <<>>))
          IN  /\ Len(all) = Cardinality(WithHost)
              /\ Range(all) = WithHost

\* a link fetched twice and a hostless link, every country written
C7_Witness ==
    /\ pc = "done"
    /\ Len(blob) = 3
    /\ blob[1] = blob[3]
    /\ HostOf(blob[2]) = EmptyHost
    /\ Cardinality(Processed) = 2
    /\ \A c \in Processed : Len(Get(files, <<c, "all">>, <<>>)) = 1

\* the observations a raw result holds for a node
Recorded(result, node) ==
    IF HasKey(result, node) /\ Get(result, node, <<>>) # <<>>
    THEN Get(result, node, <<>>)[1]
    ELSE <<>>

\* the OK observations a raw result holds under the nodes of a list
OkObservations(result, nodes) ==
    UNION {{<<node, k>> : k \in {k \in 1..Len(Recorded(result, node)) :
                                    Recorded(result, node)[k][1] = "OK"}} :
              node \in Range(nodes)}

RECURSIVE PingSum(_, _)
PingSum(result, S) ==
    IF S = {} THEN 0
    ELSE LET o == CHOOSE x \in S : TRUE
         IN  Recorded(result, o[1])[o[2]][2] + PingSum(result, S \ {o})

\* C8: extract_latency_by_country gives each country of the mapping the
\* mean of the OK observations under its nodes, and inf exactly when there
\* is none.
C8_MeanOfOkObservations ==
    lat_pc = "returned"
    => /\ Keys(lat_out) = Keys(lat_nodes)
       /\ \A i \in 1..Len(lat_nodes) :
             LET S == OkObservations(lat_results, lat_nodes[i][2])
             IN  /\ IsInf(lat_out[i][2]) <=> S = {}
                 /\ S # {} => lat_out[i][2] = <<PingSum(lat_results, S),
                                               Cardinality(S)>>

\* a country with OK and failed observations under two nodes, and a
\* country whose node is not in the result
C8_Witness ==
    /\ lat_pc = "returned"
    /\ Len(lat_out) = 2
    /\ lat_out[1][2] = <<5, 3>>
    /\ Len(lat_nodes[1][2]) = 2
    /\ \E k \in 1..Len(Recorded(lat_results, "n1")) :
           Recorded(lat_results, "n1")[k][1] = "TIMEOUT"
    /\ lat_nodes[2][2] = <<"n3">>
    /\ lat_out[2][2] = Inf

\* C9: light.txt has at most 30 lines, the links of the first min(30, n)
\* lines of all.txt, and is written only when all.txt is.
C9_LightIsPrefixOfAll ==
    \A c \in Range(Keys(country_nodes)) :
        LET all == Unrenamed(Get(files, <<c, "all">>, <<>>))
            light == Unrenamed(Get(files, <<c, "light">>, <<>>))
        IN  /\ HasKey(files, <<c, "light">>) => HasKey(files, <<c, "all">>)
            /\ c \in Processed => HasKey(files, <<c, "all">>)
            /\ Len(light) <= LightSize
            /\ Len(light) = (IF Len(all) < LightSize THEN Len(all) ELSE LightSize)
            /\ \A i \in 1..Len(light) : light[i] = all[i]

\* a country with more than 30 links in all.txt
C9_Witness ==
    \E c \in Processed :
        /\ Len(Get(files, <<c, "all">>, <<>>)) > LightSize
        /\ Len(Get(files, <<c, "light">>, <<>>)) = LightSize

====
